---- MODULE Spec2Model ----
(***************************************************************************)
(* The real-time broadcast layer of app/routes/websocket.py: the           *)
(* ConnectionManager (registry, topic buckets, broadcast), the websocket   *)
(* endpoint's receive loop, the per-connection metrics pump and the        *)
(* business-metrics monitor.                                               *)
(*                                                                         *)
(* asyncio runs one task at a time and switches tasks only at an await,    *)
(* so every action below is the code between two awaits of one task.       *)
(***************************************************************************)
EXTENDS Integers, FiniteSets, Sequences, TLC

\* Number of websocket connections the endpoint accepts in a run.
NClients == 2
\* Monitor ticks recorded in the specification of the monitor.
MaxMonTicks == 4
\* Pump ticks recorded per connection in the specification that keeps the tick history.
MaxTicks == 3
\* Send counts per broadcast saturate at this value ("MaxCount or more").
MaxCount == 2

Conns == 1..NClients
\* client ids: websocket_endpoint derives one per connection from the clock.
Ids == 1..NClients
\* message types the application broadcasts on; NoTopic is message_type=None.
Topics == {"alert", "order_placed"}
NoTopic == "None"
\* The `types` lists of subscribe and unsubscribe frames (an empty list makes
\* both calls loop over nothing, as a frame without a known action does).
TypeLists == SUBSET Topics \ {{}}

VARIABLES
    client_id,            \* websocket_endpoint's local client_id, per started connection
    active_connections,   \* ConnectionManager.active_connections: id -> websocket
    subscriptions,        \* ConnectionManager.subscriptions: defaultdict(set), topic -> ids
    connection_metadata,  \* ConnectionManager.connection_metadata: id -> metadata
    transport,            \* per websocket: "open", "closed" (every send raises) or
                          \* "stalled" (a send never completes)
    handler,              \* per connection: where websocket_endpoint is suspended
    pump,                 \* per connection: where send_metrics_updates is suspended
    bc,                   \* the broadcast call in flight (ConnectionManager.broadcast)
    plog,                 \* per connection: what each pump tick fetched and sent (history)
    mon,                  \* where monitor_business_metrics is suspended
    mlog,                 \* what each monitor tick read and fired (history)
    lifespan              \* main.py's lifespan: "startup", "serving" (at its yield), "stopped"

registry == <<active_connections, subscriptions, connection_metadata>>
vars == <<client_id, active_connections, subscriptions, connection_metadata,
          transport, handler, pump, bc, plog, mon, mlog, lifespan>>

-----------------------------------------------------------------------------
\* dict helpers

Remove(f, k) == [x \in DOMAIN f \ {k} |-> f[x]]
Put(f, k, v) == [x \in DOMAIN f \cup {k} |-> IF x = k THEN v ELSE f[x]]

\* The three dicts of the manager as one value.
Reg == [active |-> active_connections,
        subs   |-> subscriptions,
        meta   |-> connection_metadata]

\* What subscriptions[t] evaluates to (a missing key of the defaultdict is an empty set).
Bucket(subs, t) == IF t \in DOMAIN subs THEN subs[t] ELSE {}

Registered(reg) == DOMAIN reg.active

-----------------------------------------------------------------------------
\* ConnectionManager's synchronous methods, as functions on the registry

\* connect(), after the accept: lines 33-37.
connect(reg, ws, id) ==
    [reg EXCEPT !.active = Put(reg.active, id, ws),
                !.meta   = Put(reg.meta, id, ws)]

\* Variant of disconnect: the purge of the buckets is outside the membership test.
disconnect_PurgeAlways(reg, id) ==
    [active |-> IF id \in DOMAIN reg.active THEN Remove(reg.active, id) ELSE reg.active,
     subs   |-> [t \in DOMAIN reg.subs |-> reg.subs[t] \ {id}],
     meta   |-> IF id \in DOMAIN reg.meta THEN Remove(reg.meta, id) ELSE reg.meta]

\* Variant of disconnect: the purge of the buckets (lines 45-46) is missing.
disconnect_KeepBuckets(reg, id) ==
    IF id \in DOMAIN reg.active
    THEN [active |-> Remove(reg.active, id),
          subs   |-> reg.subs,
          meta   |-> IF id \in DOMAIN reg.meta THEN Remove(reg.meta, id) ELSE reg.meta]
    ELSE reg

\* disconnect(): lines 40-49. Everything is under the membership test.
disconnect(reg, id) ==
    IF id \in DOMAIN reg.active
    THEN [active |-> Remove(reg.active, id),
          subs   |-> [t \in DOMAIN reg.subs |-> reg.subs[t] \ {id}],
          meta   |-> IF id \in DOMAIN reg.meta THEN Remove(reg.meta, id) ELSE reg.meta]
    ELSE reg

\* subscribe(): lines 84-88. No membership test; the defaultdict creates the key.
subscribe(reg, id, message_types) ==
    [reg EXCEPT !.subs = [t \in DOMAIN reg.subs \cup message_types |->
                            IF t \in message_types
                            THEN Bucket(reg.subs, t) \cup {id}
                            ELSE reg.subs[t]]]

\* Variant of unsubscribe: a plain lookup that does not create the key.
unsubscribe_NoKey(reg, id, message_types) ==
    [reg EXCEPT !.subs = [t \in DOMAIN reg.subs |->
                            IF t \in message_types
                            THEN reg.subs[t] \ {id}
                            ELSE reg.subs[t]]]

\* unsubscribe(): lines 90-93. subscriptions[t] creates the key here as well.
unsubscribe(reg, id, message_types) ==
    [reg EXCEPT !.subs = [t \in DOMAIN reg.subs \cup message_types |->
                            IF t \in message_types
                            THEN Bucket(reg.subs, t) \ {id}
                            ELSE reg.subs[t]]]

\* Variant of the clean-up loop: after a failed send it disconnects every client.
disconnectAll_Everyone(reg, ids) ==
    IF ids = {} THEN reg
    ELSE [active |-> [x \in {} |-> {}],
          subs   |-> [t \in DOMAIN reg.subs |-> {}],
          meta   |-> [x \in {} |-> {}]]

\* Variant of the clean-up loop: it is missing.
disconnectAll_Missing(reg, ids) == reg

RECURSIVE disconnectAll(_, _)
\* broadcast()'s clean-up loop, lines 81-82.
disconnectAll(reg, ids) ==
    IF ids = {} THEN reg
    ELSE LET id == CHOOSE x \in ids : TRUE
         IN  disconnectAll(disconnect(reg, id), ids \ {id})

-----------------------------------------------------------------------------
\* The broadcast in flight

NoSends == [i \in Ids |-> 0]

IdleBc == [pc |-> "idle", message_type |-> NoTopic, live |-> FALSE,
           pending |-> {}, si_used |-> 0, cur |-> {}, ws |-> {},
           disconnected_clients |-> {},
           sent |-> NoSends, delivered |-> {}, interfered |-> FALSE, off |-> {}]

Bump(n) == IF n < MaxCount THEN n + 1 ELSE MaxCount

\* How a registry change made by another task shows in the suspended broadcast.
\* recipients may be the bucket itself (line 65), not a copy: the set iterator
\* then loses a discarded element and may or may not meet an added one
\* (the slot the element lands in lies before or after the iterator's position).
Observe(b, old, new) ==
    IF b.pc = "idle" \/ old = new THEN {b}
    ELSE LET t       == b.message_type
             was     == Bucket(old.subs, t)
             now     == Bucket(new.subs, t)
             b1      == [b EXCEPT !.interfered = TRUE,
                                  !.off = @ \ (now \ was)]
         IN  IF b.pc = "send" /\ b.live
             THEN {[b1 EXCEPT !.pending = (@ \ (was \ now)) \cup A] :
                       A \in SUBSET (now \ was)}
             ELSE {b1}

\* A task other than the broadcast leaves the registry as reg2.
Commit(reg2) ==
    /\ active_connections' = reg2.active
    /\ subscriptions' = reg2.subs
    /\ connection_metadata' = reg2.meta
    /\ bc' \in Observe(bc, Reg, reg2)

\* Variant of the loop: the first failed send ends it (the clean-up still runs).
Advance_StopAtFailure(b, reg) ==
    LET sendable == IF b.disconnected_clients = {}
                    THEN b.pending \cap Registered(reg) ELSE {}
    IN  IF b.live /\ Cardinality(Bucket(reg.subs, b.message_type)) # b.si_used
        THEN {[call |-> [b EXCEPT !.pc = "raised", !.pending = {}, !.cur = {}, !.ws = {}],
               reg  |-> reg]}
        ELSE {[call |-> [b EXCEPT !.pc = "send",
                                  !.pending = @ \ ({x} \cup K),
                                  !.cur = {x},
                                  !.ws = {reg.active[x]},
                                  !.sent[x] = Bump(@)],
               reg  |-> reg] :
                  x \in sendable, K \in SUBSET (b.pending \ Registered(reg))}
             \cup
             {r \in {[call |-> [b EXCEPT !.pc = "done", !.pending = {}, !.cur = {}, !.ws = {}],
                      reg  |-> disconnectAll(reg, b.disconnected_clients)]} :
                  sendable = {}}

\* The for loop of lines 72-78 from one next() of the set iterator to the
\* following await (or to the end of broadcast). b is the call's state after
\* the previous send, reg the registry now.
\*   - the iterator raises RuntimeError when the set's size is not the size it
\*     had when the loop began (the bucket was changed during a send);
\*   - ids that are not registered are passed over without suspending;
\*   - at exhaustion the clean-up loop runs and the call returns.
Advance(b, reg) ==
    LET sendable == b.pending \cap Registered(reg)
    IN  IF b.live /\ Cardinality(Bucket(reg.subs, b.message_type)) # b.si_used
        THEN {[call |-> [b EXCEPT !.pc = "raised", !.pending = {}, !.cur = {}, !.ws = {}],
               reg  |-> reg]}
        ELSE {[call |-> [b EXCEPT !.pc = "send",
                                  !.pending = @ \ ({x} \cup K),
                                  !.cur = {x},
                                  !.ws = {reg.active[x]},
                                  !.sent[x] = Bump(@)],
               reg  |-> reg] :
                  x \in sendable, K \in SUBSET (b.pending \ Registered(reg))}
             \cup
             {r \in {[call |-> [b EXCEPT !.pc = "done", !.pending = {}, !.cur = {}, !.ws = {}],
                      reg  |-> disconnectAll(reg, b.disconnected_clients)]} :
                  sendable = {}}

\* broadcast returns to its caller without an await: between the end of its
\* loop (bc.pc "done" or "raised") and BroadcastReturn no other task runs.
AtAwait == bc.pc \in {"idle", "send"}

-----------------------------------------------------------------------------
\* Initial state: the module has been imported and the application serves;
\* nothing has connected.

EmptyDict == [x \in {} |-> {}]

IdleHandler == [pc |-> "new", ws |-> {}]
IdlePump == [pc |-> "none", data |-> "none", ws |-> {}, why |-> "none"]

Init ==
    /\ client_id = EmptyDict
    /\ active_connections = EmptyDict
    /\ subscriptions = EmptyDict
    /\ connection_metadata = EmptyDict
    /\ transport = [c \in Conns |-> "open"]
    /\ handler = [c \in Conns |-> IdleHandler]
    /\ pump = [c \in Conns |-> IdlePump]
    /\ bc = IdleBc
    /\ plog = [c \in Conns |-> << >>]
    /\ mon = [pc |-> "idle"]
    /\ mlog = << >>
    /\ lifespan = "serving"

-----------------------------------------------------------------------------
\* The transport of a connection goes away (peer reset, network loss): every
\* later send_json on it raises.
TransportFail(c) ==
    /\ AtAwait
    /\ handler[c].pc \notin {"new", "done"}
    /\ transport[c] = "open"
    /\ transport' = [transport EXCEPT ![c] = "closed"]
    /\ UNCHANGED <<client_id, registry, handler, pump, bc, plog, mon, mlog, lifespan>>

\* The peer of a connection stops reading while the connection stays up (its
\* receive window is full): a send_json on it stays suspended.
TransportStall(c) ==
    /\ AtAwait
    /\ handler[c].pc \notin {"new", "done"}
    /\ transport[c] = "open"
    /\ transport' = [transport EXCEPT ![c] = "stalled"]
    /\ UNCHANGED <<client_id, registry, handler, pump, bc, plog, mon, mlog, lifespan>>

-----------------------------------------------------------------------------
\* websocket_endpoint

\* line 102: the id is the current timestamp, one per connection.
NewId(c) == c

\* The server routes a connection to the endpoint only while the application
\* serves (between the startup and the shutdown of lifespan).
\* lines 102-104 with a websocket.accept() that raises (the peer went away):
\* the endpoint ends before anything is registered.
ConnectFails(c) ==
    /\ AtAwait
    /\ lifespan = "serving"
    /\ handler[c].pc = "new"
    /\ client_id' = Put(client_id, c, NewId(c))
    /\ handler' = [handler EXCEPT ![c].pc = "done"]
    /\ transport' = [transport EXCEPT ![c] = "closed"]
    /\ UNCHANGED <<registry, pump, bc, plog, mon, mlog, lifespan>>

\* lines 102-104 (the accept touches no shared state), lines 33-37, then
\* send_personal_message (lines 53-56) up to its send_json.
ConnectAs(c, id) ==
    /\ AtAwait
    /\ lifespan = "serving"
    /\ handler[c].pc = "new"
    /\ LET reg1 == connect(Reg, c, id)
       IN  /\ client_id' = Put(client_id, c, id)
           /\ Commit(reg1)
           /\ handler' = [handler EXCEPT ![c] = [pc |-> "greet", ws |-> {reg1.active[id]}]]
    /\ UNCHANGED <<transport, pump, plog, mon, mlog, lifespan>>

\* A connection whose timestamp differs from that of every other connection.
Connect(c) == ConnectAs(c, NewId(c))

\* The outcome of a send_json suspended on websocket w of the set ws.
SendOk(ws) == \A w \in ws : transport[w] = "open"

\* send_json has no timeout: on a stalled websocket the await never resumes.
Stalled(ws) == \E w \in ws : transport[w] = "stalled"

\* Variant of send_personal_message: a failed send leaves the client registered.
AfterSend_Never(reg, ws, id) == reg

\* send_personal_message after its send_json, lines 57-59: a failed send disconnects.
AfterSend(reg, ws, id) == IF SendOk(ws) THEN reg ELSE disconnect(reg, id)

\* lines 57-59 for the connection message, then line 117 (the pump task is
\* created) and line 122 (the first receive_json).
GreetDone(c) ==
    /\ AtAwait
    /\ handler[c].pc = "greet"
    /\ ~Stalled(handler[c].ws)
    /\ Commit(AfterSend(Reg, handler[c].ws, client_id[c]))
    /\ handler' = [handler EXCEPT ![c] = [pc |-> "receive", ws |-> {}]]
    /\ pump' = [pump EXCEPT ![c].pc = "start"]
    /\ UNCHANGED <<client_id, transport, plog, mon, mlog, lifespan>>

\* The values of data.get("action") in a frame: the three the endpoint knows,
\* one it does not, and None for a frame without the key.
FrameActions == {"subscribe", "unsubscribe", "ping", "refresh", "None"}

\* Variant of the if/elif chain: its last branch is an else.
branch_ElsePing(action) ==
    IF action = "subscribe" THEN "subscribe"
    ELSE IF action = "unsubscribe" THEN "unsubscribe"
    ELSE "ping"

\* lines 125, 129, 133: the if/elif chain on the action; there is no else.
branch(action) ==
    IF action = "subscribe" THEN "subscribe"
    ELSE IF action = "unsubscribe" THEN "unsubscribe"
    ELSE IF action = "ping" THEN "ping"
    ELSE "none"

\* lines 125-127.
RecvSubscribe(c, message_types) ==
    /\ AtAwait
    /\ handler[c].pc = "receive"
    /\ \E action \in FrameActions : branch(action) = "subscribe"
    /\ Commit(subscribe(Reg, client_id[c], message_types))
    /\ UNCHANGED <<client_id, transport, handler, pump, plog, mon, mlog, lifespan>>

\* lines 129-131.
RecvUnsubscribe(c, message_types) ==
    /\ AtAwait
    /\ handler[c].pc = "receive"
    /\ \E action \in FrameActions : branch(action) = "unsubscribe"
    /\ Commit(unsubscribe(Reg, client_id[c], message_types))
    /\ UNCHANGED <<client_id, transport, handler, pump, plog, mon, mlog, lifespan>>

\* lines 133-138 with send_personal_message's line 53: the pong is sent only
\* to a registered id.
RecvPing(c) ==
    /\ AtAwait
    /\ handler[c].pc = "receive"
    /\ \E action \in FrameActions : branch(action) = "ping"
    /\ LET id == client_id[c]
       IN  handler' = IF id \in DOMAIN active_connections
                      THEN [handler EXCEPT ![c] = [pc |-> "pong", ws |-> {active_connections[id]}]]
                      ELSE handler
    /\ UNCHANGED <<client_id, registry, transport, pump, bc, plog, mon, mlog, lifespan>>

\* lines 57-59 for the pong, back to receive_json.
PongDone(c) ==
    /\ AtAwait
    /\ handler[c].pc = "pong"
    /\ ~Stalled(handler[c].ws)
    /\ Commit(AfterSend(Reg, handler[c].ws, client_id[c]))
    /\ handler' = [handler EXCEPT ![c] = [pc |-> "receive", ws |-> {}]]
    /\ UNCHANGED <<client_id, transport, pump, plog, mon, mlog, lifespan>>

\* A frame whose action is none of the three: no branch of lines 125-138 is taken.
RecvOther(c) ==
    /\ AtAwait
    /\ handler[c].pc = "receive"
    /\ \E action \in FrameActions : branch(action) = "none"
    /\ UNCHANGED vars

\* lines 122-138: what the endpoint does with a frame whose action is `action`
\* and whose types are message_types.
RecvFrame(c, action, message_types) ==
    CASE branch(action) = "subscribe"   -> RecvSubscribe(c, message_types)
      [] branch(action) = "unsubscribe" -> RecvUnsubscribe(c, message_types)
      [] branch(action) = "ping"        -> RecvPing(c)
      [] OTHER                          -> RecvOther(c)

\* Variant of cancel: the pump task is left running.
cancel_Nothing(p) == p

\* Task.cancel() of line 142/147: CancelledError is raised at the pump's
\* current await and is not an Exception, so no handler of the pump catches it.
cancel(p) == IF p.pc \in {"none", "stopped"} THEN p
             ELSE [pc |-> "stopped", data |-> "none", ws |-> {}, why |-> "cancelled"]

\* lines 140-147: receive_json raises WebSocketDisconnect (kind "disconnect")
\* or another Exception (kind "error": a frame that is no JSON object). Both
\* handlers do the same; the endpoint returns and the server closes the socket.
RecvFails(c, kind) ==
    /\ AtAwait
    /\ handler[c].pc = "receive"
    /\ kind \in {"disconnect", "error"}
    /\ Commit(disconnect(Reg, client_id[c]))
    /\ pump' = [pump EXCEPT ![c] = cancel(@)]
    /\ handler' = [handler EXCEPT ![c].pc = "done"]
    /\ transport' = [transport EXCEPT ![c] = "closed"]
    /\ UNCHANGED <<client_id, plog, mon, mlog, lifespan>>

\* The endpoint's task is cancelled while it is suspended in an await (the
\* server gives up the connection's task, as at a forced shutdown):
\* CancelledError is neither a WebSocketDisconnect nor an Exception, so
\* neither handler of lines 140-147 runs and there is no finally clause. The
\* endpoint ends and the server closes the socket.
HandlerCancelled(c) ==
    /\ AtAwait
    /\ handler[c].pc \in {"greet", "receive", "pong"}
    /\ handler' = [handler EXCEPT ![c] = [pc |-> "done", ws |-> {}]]
    /\ transport' = [transport EXCEPT ![c] = "closed"]
    /\ UNCHANGED <<client_id, registry, pump, bc, plog, mon, mlog, lifespan>>

-----------------------------------------------------------------------------
\* main.py: lifespan

\* lines 27-38, up to the yield: logging and a test connection to the
\* database whose failure is only logged. No task is created.
Startup ==
    /\ lifespan = "startup"
    /\ lifespan' = "serving"
    /\ UNCHANGED <<client_id, registry, transport, handler, pump, bc, plog, mon, mlog>>

\* lines 42-43, after the yield: one line of logging.
Shutdown ==
    /\ lifespan = "serving"
    /\ AtAwait
    /\ lifespan' = "stopped"
    /\ UNCHANGED <<client_id, registry, transport, handler, pump, bc, plog, mon, mlog>>

-----------------------------------------------------------------------------
\* send_metrics_updates and get_live_metrics

\* Variant of get_live_metrics: the failed query is not caught.
get_live_metrics_Raises(ok) ==
    [raised |-> ~ok, data |-> "snapshot"]

\* get_live_metrics, lines 170-202: a failed query is caught (line 200) and
\* the function returns {} instead of raising.
get_live_metrics(ok) ==
    [raised |-> FALSE, data |-> IF ok THEN "snapshot" ELSE "empty"]

Tick(fetch, sent) == [fetch |-> fetch, sent |-> sent]
SetLast(log, sent) == [log EXCEPT ![Len(log)].sent = sent]

\* Variant of send_metrics_updates: `while True`, the loop condition is gone.
PumpLoop_Forever(c, log) ==
    /\ AtAwait
    /\ pump[c].pc \in {"start", "sleep"}
    /\ log => Len(plog[c]) < MaxTicks
    /\ pump' = [pump EXCEPT ![c].pc = "fetch"]
    /\ UNCHANGED <<client_id, registry, transport, handler, bc, plog, mon, mlog, lifespan>>

\* line 151: the loop condition, evaluated when the task starts and after
\* each sleep; then line 154 up to the await inside get_live_metrics.
PumpLoop(c, log) ==
    /\ AtAwait
    /\ pump[c].pc \in {"start", "sleep"}
    /\ log => Len(plog[c]) < MaxTicks
    /\ pump' = IF client_id[c] \in DOMAIN active_connections
               THEN [pump EXCEPT ![c].pc = "fetch"]
               ELSE [pump EXCEPT ![c].pc = "stopped", ![c].why = "unregistered"]
    /\ UNCHANGED <<client_id, registry, transport, handler, bc, plog, mon, mlog, lifespan>>

\* lines 154-161: the fetch returns; the metrics message is built from what
\* it returned and send_personal_message runs up to its send_json. An
\* exception out of the fetch would reach line 166 and end the loop.
PumpFetchDone(c, ok, log) ==
    /\ AtAwait
    /\ pump[c].pc = "fetch"
    /\ LET r  == get_live_metrics(ok)
           id == client_id[c]
           registered == id \in DOMAIN active_connections
       IN  /\ pump' = IF r.raised
                      THEN [pump EXCEPT ![c].pc = "stopped", ![c].why = "error"]
                      ELSE IF registered
                      THEN [pump EXCEPT ![c] = [pc |-> "send", data |-> r.data,
                                                ws |-> {active_connections[id]},
                                                why |-> "none"]]
                      ELSE [pump EXCEPT ![c].pc = "sleep"]
           /\ plog' = IF log
                      THEN [plog EXCEPT ![c] = Append(@,
                               Tick(IF ok THEN "ok" ELSE "failed",
                                    IF r.raised THEN "none"
                                    ELSE IF registered THEN "pending" ELSE "skipped"))]
                      ELSE plog
    /\ UNCHANGED <<client_id, registry, transport, handler, bc, mon, mlog, lifespan>>

\* lines 57-59 for the metrics message, then line 164 (the sleep).
PumpSendDone(c, log) ==
    /\ AtAwait
    /\ pump[c].pc = "send"
    /\ ~Stalled(pump[c].ws)
    /\ Commit(AfterSend(Reg, pump[c].ws, client_id[c]))
    /\ pump' = [pump EXCEPT ![c] = [pc |-> "sleep", data |-> "none", ws |-> {}, why |-> "none"]]
    /\ plog' = IF log
               THEN [plog EXCEPT ![c] = SetLast(@, IF SendOk(pump[c].ws)
                                                   THEN pump[c].data ELSE "failed")]
               ELSE plog
    /\ UNCHANGED <<client_id, transport, handler, mon, mlog, lifespan>>

-----------------------------------------------------------------------------
\* ConnectionManager.broadcast

\* line 63: `message_type and message_type in self.subscriptions`, a key test.
HasBucket(reg, message_type) ==
    message_type # NoTopic /\ message_type \in DOMAIN reg.subs

\* Variant of lines 63-68: without a bucket to take, the members of all buckets.
recipients_SubscribersOnly(reg, message_type) ==
    IF HasBucket(reg, message_type) THEN reg.subs[message_type]
    ELSE UNION {reg.subs[t] : t \in DOMAIN reg.subs}

\* lines 63-68: the ids broadcast iterates over.
recipients(reg, message_type) ==
    IF HasBucket(reg, message_type) THEN reg.subs[message_type]
    ELSE DOMAIN reg.active

\* lines 63-70 and the loop up to the first send_json (or the return).
\* recipients is the bucket itself when the key exists, and a copy of all ids
\* otherwise.
broadcast(message_type) ==
    /\ bc.pc = "idle"
    /\ message_type \in Topics \cup {NoTopic}
    /\ LET live == HasBucket(Reg, message_type)
           to   == recipients(Reg, message_type)
           b0 == [IdleBc EXCEPT !.message_type = message_type,
                                !.live = live,
                                !.pending = to,
                                !.si_used = Cardinality(to),
                                !.off = IF message_type \in DOMAIN subscriptions
                                        THEN Ids \ subscriptions[message_type]
                                        ELSE {}]
       IN  \E r \in Advance(b0, Reg) :
               /\ bc' = r.call
               /\ active_connections' = r.reg.active
               /\ subscriptions' = r.reg.subs
               /\ connection_metadata' = r.reg.meta

\* The application calls broadcast: test_broadcast (line 311, no message
\* type) or one of the broadcast_* functions (lines 218, 232, 246).
Broadcast(message_type) ==
    /\ broadcast(message_type)
    /\ UNCHANGED <<client_id, transport, handler, pump, plog, mon, mlog, lifespan>>

\* lines 75-78 after the send_json, then the loop up to the next send_json
\* (or lines 81-82 and the return).
BroadcastSendDone ==
    /\ bc.pc = "send"
    /\ ~Stalled(bc.ws)
    /\ LET b1 == IF SendOk(bc.ws)
                 THEN [bc EXCEPT !.delivered = @ \cup bc.cur]
                 ELSE [bc EXCEPT !.disconnected_clients = @ \cup bc.cur]
       IN  \E r \in Advance(b1, Reg) :
               /\ bc' = r.call
               /\ active_connections' = r.reg.active
               /\ subscriptions' = r.reg.subs
               /\ connection_metadata' = r.reg.meta
    /\ UNCHANGED <<client_id, transport, handler, pump, plog, mon, mlog, lifespan>>

\* broadcast returns (line 82) or raises out of its loop: the caller resumes.
\* The monitor, when it is the caller, goes on to its sleep: line 275 and
\* line 290 after a return, lines 292-294 after the RuntimeError.
BroadcastReturn ==
    /\ bc.pc \in {"done", "raised"}
    /\ bc' = IdleBc
    /\ mon' = IF mon.pc = "bcast" THEN [mon EXCEPT !.pc = "sleep"] ELSE mon
    /\ UNCHANGED <<client_id, registry, transport, handler, pump, plog, mlog, lifespan>>

-----------------------------------------------------------------------------
\* monitor_business_metrics

\* line 268.
milestones == <<25000, 50000, 100000, 250000, 500000>>

\* The daily revenues the query may return (line 265 turns no orders into 0).
RevenueValues == {0, 24000, 26000, 26500, 30000, 51000}

\* line 270: daily_revenue >= milestone and daily_revenue < milestone * 1.1,
\* for a revenue in whole euros. milestone * 1.1 is a double: it is exact for
\* 250000 and 500000 and lies just above the exact product for the others.
RoundsUp == {25000, 50000, 100000}
InWindow(daily_revenue, milestone) ==
    /\ daily_revenue >= milestone
    /\ \/ daily_revenue * 10 < milestone * 11
       \/ daily_revenue * 10 = milestone * 11 /\ milestone \in RoundsUp

\* lines 269-275: the first milestone of the list whose window holds the
\* revenue (the loop breaks after it); 0 when there is none.
RECURSIVE FirstMilestone(_, _)
FirstMilestone(daily_revenue, k) ==
    IF k > Len(milestones) THEN 0
    ELSE IF InWindow(daily_revenue, milestones[k]) THEN milestones[k]
    ELSE FirstMilestone(daily_revenue, k + 1)

MonTick(ok, revenue, fired) == [ok |-> ok, revenue |-> revenue, fired |-> fired]

\* lines 261-290: the revenue query returns. With a milestone in its window,
\* broadcast_revenue_milestone calls broadcast(message, "alert") (line 232)
\* and the monitor waits for it; otherwise it sleeps (line 290). Lines
\* 277-285 assign the text of the churn query to a local and nothing else is
\* done with it. tick is the entry the history gets for this tick.
MonitorLoopBody(daily_revenue, tick) ==
    /\ mon.pc = "fetch"
    /\ AtAwait
    /\ LET milestone == FirstMilestone(daily_revenue, 1)
       IN  /\ mlog' = Append(mlog, tick)
           /\ IF milestone # 0
              THEN /\ broadcast("alert")
                   /\ mon' = [mon EXCEPT !.pc = "bcast"]
              ELSE /\ mon' = [mon EXCEPT !.pc = "sleep"]
                   /\ UNCHANGED <<registry, bc>>
    /\ UNCHANGED <<client_id, transport, handler, pump, plog, lifespan>>

MonitorQueryReturns(daily_revenue) ==
    MonitorLoopBody(daily_revenue,
                    MonTick(TRUE, daily_revenue, FirstMilestone(daily_revenue, 1)))

\* What churn_check (lines 278-285) would count, against the bound of the
\* alert: the state of the customers table at the time of the tick.
HighRiskCounts == {"within_bound", "over_bound"}

\* A tick of the history with the state of the customers table beside it.
ChurnTick(daily_revenue, high_risk_count) ==
    [ok |-> TRUE, revenue |-> daily_revenue,
     fired |-> FirstMilestone(daily_revenue, 1),
     high_risk_count |-> high_risk_count]

\* The loop's body on a tick where the customers table is in the given state.
MonitorChurnTick(daily_revenue, high_risk_count) ==
    MonitorLoopBody(daily_revenue, ChurnTick(daily_revenue, high_risk_count))

\* Variant of the except clause: the exception ends the monitor's task.
monitor_except_Dies(m) == [m EXCEPT !.pc = "stopped"]

\* lines 292-294: the except clause of the loop's body logs the error and
\* sleeps one interval; the loop goes on.
monitor_except(m) == [m EXCEPT !.pc = "sleep"]

\* lines 261-263 raise (the query failed, or returned no row): lines 292-294.
MonitorQueryFails ==
    /\ mon.pc = "fetch"
    /\ AtAwait
    /\ mlog' = Append(mlog, MonTick(FALSE, 0, 0))
    /\ mon' = monitor_except(mon)
    /\ UNCHANGED <<client_id, registry, transport, handler, pump, bc, plog, lifespan>>

\* line 290 or 294 ends: the loop of line 251 runs the query again.
MonitorWake ==
    /\ mon.pc = "sleep"
    /\ AtAwait
    /\ Len(mlog) < MaxMonTicks
    /\ mon' = [mon EXCEPT !.pc = "fetch"]
    /\ UNCHANGED <<client_id, registry, transport, handler, pump, bc, plog, mlog, lifespan>>

-----------------------------------------------------------------------------
\* Specifications. The full product of handlers, pumps and a broadcast is
\* beyond exhaustive search, so the system is checked in two parts that share
\* the handlers and the registry:
\*   Spec      the handlers, the registry and broadcast;
\*   SpecPump  the handlers, the registry and the pumps, with the tick history.
\* A pump touches the registry only through the disconnect of a failed send
\* (send_personal_message), which the ping reply of Spec does as well.

\* One step of connection c: its endpoint, or its transport.
ClientStep(c) ==
    \/ Connect(c)
    \/ ConnectFails(c)
    \/ GreetDone(c)
    \/ \E message_types \in TypeLists : RecvSubscribe(c, message_types)
    \/ \E message_types \in TypeLists : RecvUnsubscribe(c, message_types)
    \/ RecvPing(c)
    \/ PongDone(c)
    \/ RecvOther(c)
    \/ \E kind \in {"disconnect", "error"} : RecvFails(c, kind)
    \/ TransportFail(c)

Next ==
    \/ \E c \in Conns : ClientStep(c)
    \/ \E message_type \in Topics \cup {NoTopic} : Broadcast(message_type)
    \/ BroadcastSendDone
    \/ BroadcastReturn

Spec == Init /\ [][Next]_vars

\* One step of connection c's pump.
PumpStep(c) ==
    \/ PumpLoop(c, TRUE)
    \/ \E ok \in BOOLEAN : PumpFetchDone(c, ok, TRUE)
    \/ PumpSendDone(c, TRUE)

\* The endpoint without its subscribe and unsubscribe frames.
SessionStep(c) ==
    \/ Connect(c)
    \/ ConnectFails(c)
    \/ GreetDone(c)
    \/ RecvPing(c)
    \/ PongDone(c)
    \/ RecvOther(c)
    \/ \E kind \in {"disconnect", "error"} : RecvFails(c, kind)
    \/ TransportFail(c)

\* SpecMon: monitor_business_metrics running as a task beside sessions that
\* are connected (subscribed to "alert" or not) and whose transports may fail.
InitMon ==
    \E connected \in SUBSET Conns : \E alert \in SUBSET connected :
        /\ client_id = [c \in connected |-> NewId(c)]
        /\ active_connections = [i \in {NewId(c) : c \in connected} |-> i]
        /\ connection_metadata = [i \in {NewId(c) : c \in connected} |-> i]
        /\ subscriptions = IF alert = {} THEN EmptyDict
                           ELSE [t \in {"alert"} |-> {NewId(c) : c \in alert}]
        /\ transport = [c \in Conns |-> "open"]
        /\ handler = [c \in Conns |->
                         IF c \in connected THEN [pc |-> "receive", ws |-> {}]
                         ELSE IdleHandler]
        /\ pump = [c \in Conns |->
                      IF c \in connected THEN [IdlePump EXCEPT !.pc = "start"]
                      ELSE IdlePump]
        /\ bc = IdleBc
        /\ plog = [c \in Conns |-> << >>]
        /\ mon = [pc |-> "fetch"]
        /\ mlog = << >>
        /\ lifespan = "serving"

NextMon ==
    \/ \E daily_revenue \in RevenueValues : MonitorQueryReturns(daily_revenue)
    \/ MonitorQueryFails
    \/ MonitorWake
    \/ BroadcastSendDone
    \/ BroadcastReturn
    \/ \E c \in Conns : TransportFail(c)

SpecMon == InitMon /\ [][NextMon]_vars

\* SpecChurn: the monitor beside the sessions, with the state of the
\* customers table recorded at each tick.
ChurnRevenues == {0, 26000}

NextChurn ==
    \/ \E daily_revenue \in ChurnRevenues : \E high_risk_count \in HighRiskCounts :
          MonitorChurnTick(daily_revenue, high_risk_count)
    \/ MonitorQueryFails
    \/ MonitorWake
    \/ BroadcastSendDone
    \/ BroadcastReturn
    \/ \E c \in Conns : TransportFail(c)

SpecChurn == InitMon /\ [][NextChurn]_vars

NextPump ==
    \E c \in Conns : SessionStep(c) \/ PumpStep(c)

SpecPump == Init /\ [][NextPump]_vars

\* SpecSession: the endpoints with all their frames and the pumps (without
\* the tick history), so that a session's pump and its ping reply may both be
\* suspended in a send to the same websocket.
PumpStepNoLog(c) ==
    \/ PumpLoop(c, FALSE)
    \/ \E ok \in BOOLEAN : PumpFetchDone(c, ok, FALSE)
    \/ PumpSendDone(c, FALSE)

NextSession ==
    \E c \in Conns : ClientStep(c) \/ PumpStepNoLog(c)

SpecSession == Init /\ [][NextSession]_vars

\* SpecSessionFair: SpecSession where the event loop resumes a pump whose
\* await has completed: the sleep of line 164 ends after its five seconds,
\* the query of get_live_metrics returns or raises, and send_json on a
\* websocket that does not stall returns or raises. Nothing obliges a client
\* to send a frame or a transport to fail.
SpecSessionFair ==
    Init /\ [][NextSession]_vars /\ \A c \in Conns : WF_vars(PumpStepNoLog(c))

\* SpecClock: the endpoints when the clock may give two connections the same
\* timestamp (line 102 reads it with the resolution of the system clock, and
\* nothing compares the id with those in use).
ClockStep(c) ==
    \/ \E id \in Ids : ConnectAs(c, id)
    \/ GreetDone(c)
    \/ \E message_types \in TypeLists : RecvSubscribe(c, message_types)
    \/ \E message_types \in TypeLists : RecvUnsubscribe(c, message_types)
    \/ RecvPing(c)
    \/ PongDone(c)
    \/ \E kind \in {"disconnect", "error"} : RecvFails(c, kind)
    \/ TransportFail(c)

NextClock == \E c \in Conns : ClockStep(c)

SpecClock == Init /\ [][NextClock]_vars

\* SpecClockPump: SpecClock with the pumps the endpoints start (line 117).
NextClockPump == \E c \in Conns : ClockStep(c) \/ PumpStepNoLog(c)

SpecClockPump == Init /\ [][NextClockPump]_vars

\* SpecLife: the application from the start of lifespan to after its end,
\* with the endpoints (which may be cancelled) and the pumps.
InitLife ==
    /\ client_id = EmptyDict
    /\ active_connections = EmptyDict
    /\ subscriptions = EmptyDict
    /\ connection_metadata = EmptyDict
    /\ transport = [c \in Conns |-> "open"]
    /\ handler = [c \in Conns |-> IdleHandler]
    /\ pump = [c \in Conns |-> IdlePump]
    /\ bc = IdleBc
    /\ plog = [c \in Conns |-> << >>]
    /\ mon = [pc |-> "idle"]
    /\ mlog = << >>
    /\ lifespan = "startup"

NextLife ==
    \/ Startup
    \/ Shutdown
    \/ \E c \in Conns : SessionStep(c) \/ PumpStepNoLog(c) \/ HandlerCancelled(c)

SpecLife == InitLife /\ [][NextLife]_vars

\* SpecFanout: broadcasts to sessions that are connected (subscribed to
\* "alert" or not) and whose transports may fail or stall. The event loop
\* resumes a task whose await has completed, hence the weak fairness of the
\* two steps of broadcast; nothing obliges a transport to fail or the
\* application to broadcast.
InitFanout ==
    \E connected \in SUBSET Conns : \E alert \in SUBSET connected :
        /\ client_id = [c \in connected |-> NewId(c)]
        /\ active_connections = [i \in {NewId(c) : c \in connected} |-> i]
        /\ connection_metadata = [i \in {NewId(c) : c \in connected} |-> i]
        /\ subscriptions = IF alert = {} THEN EmptyDict
                           ELSE [t \in {"alert"} |-> {NewId(c) : c \in alert}]
        /\ transport = [c \in Conns |-> "open"]
        /\ handler = [c \in Conns |->
                         IF c \in connected THEN [pc |-> "receive", ws |-> {}]
                         ELSE IdleHandler]
        /\ pump = [c \in Conns |->
                      IF c \in connected THEN [IdlePump EXCEPT !.pc = "start"]
                      ELSE IdlePump]
        /\ bc = IdleBc
        /\ plog = [c \in Conns |-> << >>]
        /\ mon = [pc |-> "idle"]
        /\ mlog = << >>
        /\ lifespan = "serving"

NextFanout ==
    \/ \E message_type \in Topics \cup {NoTopic} : Broadcast(message_type)
    \/ BroadcastSendDone
    \/ BroadcastReturn
    \/ \E c \in Conns : TransportFail(c)
    \/ \E c \in Conns : TransportStall(c)

SpecFanout ==
    /\ InitFanout
    /\ [][NextFanout]_vars
    /\ WF_vars(BroadcastSendDone)
    /\ WF_vars(BroadcastReturn)

-----------------------------------------------------------------------------
\* Properties of broadcast, subscribe, unsubscribe and disconnect (under Spec)

Recipient(i) == bc.sent[i] > 0

\* The ids the finished broadcast was addressed to, read off the registry
\* (equal to the recipients at its start when no other task changed the registry).
Addressed == IF bc.live THEN Bucket(subscriptions, bc.message_type)
             ELSE DOMAIN active_connections

Healthy(i) == i \in DOMAIN active_connections /\ transport[active_connections[i]] = "open"

Orphaned(i) == i \notin DOMAIN active_connections
               /\ \E t \in DOMAIN subscriptions : i \in subscriptions[t]

\* C1: a broadcast on a topic performs no send to a registered session that is
\* not subscribed to that topic, whether or not the topic was ever subscribed to.
\* (Stated for a broadcast during which no other task changed the registry.)
C1_NoSendToNonSubscriber ==
    (bc.pc = "send" /\ ~bc.interfered /\ bc.message_type # NoTopic)
        => bc.cur \subseteq Bucket(subscriptions, bc.message_type)

\* C2: a broadcast on topic T (not overlapped by a registry change) performs
\* exactly one send, which is delivered, to every registered subscriber of T
\* with a healthy transport; and a subscribe of a session to topics it is
\* already subscribed to leaves every bucket as it is, so that subscribing
\* more than once is the same as subscribing once.
C2_ExactlyOnce ==
    (bc.pc = "done" /\ ~bc.interfered /\ bc.message_type # NoTopic)
        => \A i \in Bucket(subscriptions, bc.message_type) :
               Healthy(i) => bc.sent[i] = 1 /\ i \in bc.delivered

C2_Resubscribe ==
    \/ UNCHANGED subscriptions
    \/ \A c \in DOMAIN client_id : \A message_types \in TypeLists :
          ~ ( /\ \A t \in message_types : client_id[c] \in Bucket(subscriptions, t)
              /\ RecvSubscribe(c, message_types) )

Off(i, t) == t \in DOMAIN subscriptions /\ i \notin subscriptions[t]

C3_Unsubscribed ==
    \A c \in DOMAIN client_id : \A message_types \in TypeLists :
        \/ \A t \in message_types :
              t \in DOMAIN subscriptions' /\ client_id[c] \notin subscriptions'[t]
        \/ ~RecvUnsubscribe(c, message_types)

C3_StaysOff ==
    \A i \in Ids : \A t \in Topics :
        Off(i, t) => \/ (t \in DOMAIN subscriptions' /\ i \notin subscriptions'[t])
                     \/ \E c \in DOMAIN client_id : \E message_types \in TypeLists :
                           /\ client_id[c] = i
                           /\ t \in message_types
                           /\ RecvSubscribe(c, message_types)

C3_NoSendWhileOff == \A i \in bc.off : ~Recipient(i)

C3_NoSendAfterUnsubscribe ==
    [][C3_Unsubscribed]_vars /\ [][C3_StaysOff]_vars /\ []C3_NoSendWhileOff

\* S is registered and healthy, T's bucket exists and is empty, and a broadcast
\* on T has returned without a send.
C3_Witness ==
    /\ bc.pc = "done" /\ bc.message_type = "alert"
    /\ "alert" \in DOMAIN subscriptions /\ subscriptions["alert"] = {}
    /\ \E i \in bc.off : Healthy(i) /\ ~Recipient(i)

CallsDisconnect(c) ==
    \/ \E kind \in {"disconnect", "error"} : RecvFails(c, kind)
    \/ GreetDone(c) /\ ~SendOk(handler[c].ws)
    \/ PongDone(c) /\ ~SendOk(handler[c].ws)

C8_Step ==
    \A c \in DOMAIN client_id :
        (client_id[c] \notin DOMAIN active_connections /\ CallsDisconnect(c))
            => UNCHANGED registry

C8_DisconnectIdempotent == [][C8_Step]_vars

\* The endpoint of an evicted session has ended (its disconnect ran on the
\* unregistered id) and the id's bucket entry is as it was.
C8_Witness ==
    \E c \in DOMAIN client_id : handler[c].pc = "done" /\ Orphaned(client_id[c])

\* C9: every member of a topic bucket is a registered session.
C9_NoOrphans ==
    \A t \in DOMAIN subscriptions : subscriptions[t] \subseteq DOMAIN active_connections

\* C10: a registry change during a suspended broadcast does not invalidate
\* its iteration: the broadcast never ends in an error.
C10_SnapshotIteration == bc.pc # "raised"

\* The registry with topic t's bucket absent, as before the first subscribe
\* or unsubscribe that named t.
WithoutBucket(reg, t) == [reg EXCEPT !.subs = Remove(@, t)]

\* C15: an empty bucket is equivalent to an absent one. In every state where
\* topic T's bucket exists and is empty, broadcast(message, T) iterates over the
\* same ids as it would if T had no bucket.
C15_EmptyBucketIsAbsent ==
    \A t \in DOMAIN subscriptions :
        subscriptions[t] = {} =>
            recipients(Reg, t) = recipients(WithoutBucket(Reg, t), t)

-----------------------------------------------------------------------------
\* Properties of the metrics pump (under SpecPump)

Ticks(c) == 1..Len(plog[c])
Fetches(c) == [k \in Ticks(c) |-> plog[c][k].fetch]
\* The metrics messages delivered to the session of connection c.
MetricsDelivered(c) == {k \in Ticks(c) : plog[c][k].sent \in {"snapshot", "empty"}}

\* C5: on a tick whose fetch fails the pump sends no metrics message; with a
\* provider that fails on tick 2 only, three ticks deliver two messages.
C5_FailedTickSkipped ==
    \A c \in Conns :
        /\ \A k \in Ticks(c) :
              plog[c][k].fetch = "failed" => plog[c][k].sent \in {"none", "skipped"}
        /\ ( /\ Fetches(c) = <<"ok", "failed", "ok">>
             /\ pump[c].pc = "sleep"
             /\ Healthy(client_id[c]) )
           => Cardinality(MetricsDelivered(c)) = 2

\* C6: a provider failure never stops a pump. The pump of a registered session
\* is never stopped, and on a tick after a failed one whose fetch succeeds the
\* snapshot is sent and, the session being registered with a healthy
\* transport, delivered.
C6_FailureDoesNotStopPump ==
    \A c \in DOMAIN client_id :
        /\ pump[c].pc = "stopped" =>
              /\ client_id[c] \notin DOMAIN active_connections
              /\ pump[c].why \in {"unregistered", "cancelled"}
        /\ \A k \in Ticks(c) :
              ( /\ k > 1
                /\ plog[c][k - 1].fetch = "failed"
                /\ plog[c][k].fetch = "ok"
                /\ Healthy(client_id[c]) )
              => \/ plog[c][k].sent = "snapshot"
                 \/ plog[c][k].sent = "pending" /\ k = Len(plog[c]) /\ pump[c].pc = "send"

C6_Witness ==
    \E c \in DOMAIN client_id :
        /\ Len(plog[c]) = 2
        /\ plog[c][1].fetch = "failed"
        /\ plog[c][2] = Tick("ok", "snapshot")
        /\ pump[c].pc = "sleep"
        /\ Healthy(client_id[c])

-----------------------------------------------------------------------------
\* Properties of the monitor (under SpecMon)

MonTicks == 1..Len(mlog)
Revenues == [k \in MonTicks |-> mlog[k].revenue]
Fired == [k \in MonTicks |-> mlog[k].fired]

\* C7: milestone detection is edge-triggered. A milestone is broadcast on a
\* tick only if the revenue of the previous tick was below it, and the revenues
\* 24000, 26000, 26500, 51000 fire 25000 on tick 2 and 50000 on tick 4 only.
C7_EdgeTriggered ==
    /\ \A k \in MonTicks :
          (k > 1 /\ mlog[k].fired # 0 /\ mlog[k - 1].ok)
              => mlog[k - 1].revenue < mlog[k].fired
    /\ Revenues = <<24000, 26000, 26500, 51000>>
          => Fired = <<0, 25000, 0, 50000>>

-----------------------------------------------------------------------------
\* Properties of the fan-out with stalled transports (under SpecFanout)

\* C11: no head-of-line blocking. A broadcast that is suspended in a send
\* eventually returns, and every recipient it has not reached yet receives
\* the message as long as its transport stays healthy, also when the send to
\* another recipient never completes.
C11_NoHeadOfLineBlocking ==
    /\ (bc.pc = "send") ~> (bc.pc = "idle")
    /\ \A i \in Ids :
          (bc.pc = "send" /\ i \in bc.pending /\ Healthy(i))
              ~> (i \in bc.delivered \/ ~Healthy(i))

-----------------------------------------------------------------------------
\* Properties of send_personal_message (under SpecSession)

\* send_personal_message returns to connection c's endpoint after a
\* send_json (of the connection message or of a pong) that raised.
EndpointSendFailed(c) ==
    \/ handler[c].pc = "greet" /\ ~SendOk(handler[c].ws) /\ GreetDone(c)
    \/ handler[c].pc = "pong" /\ ~SendOk(handler[c].ws) /\ PongDone(c)

\* send_personal_message returns to connection c's pump after a send_json that raised.
PumpSendFailed(c) ==
    pump[c].pc = "send" /\ ~SendOk(pump[c].ws) /\ PumpSendDone(c, FALSE)

\* The registration and the subscriptions of every id but id are as before.
OthersKept(id) ==
    /\ \A j \in Ids \ {id} :
          /\ j \in DOMAIN active_connections' <=> j \in DOMAIN active_connections
          /\ j \in DOMAIN connection_metadata' <=> j \in DOMAIN connection_metadata
          /\ j \in DOMAIN active_connections =>
                active_connections'[j] = active_connections[j]
    /\ DOMAIN subscriptions' = DOMAIN subscriptions
    /\ \A t \in DOMAIN subscriptions : subscriptions'[t] \ {id} = subscriptions[t] \ {id}

\* C12: a send_personal_message whose send fails leaves its id out of the
\* sessions, of the metadata and of every bucket, leaves every other session
\* as it was, and returns normally to its caller.
Unregistered(id) ==
    /\ id \notin DOMAIN active_connections'
    /\ id \notin DOMAIN connection_metadata'
    /\ \A t \in DOMAIN subscriptions' : id \notin subscriptions'[t]
    /\ OthersKept(id)

C12_Step ==
    \A c \in DOMAIN client_id :
        /\ EndpointSendFailed(c) =>
              Unregistered(client_id[c]) /\ handler'[c].pc = "receive"
        /\ PumpSendFailed(c) =>
              Unregistered(client_id[c]) /\ pump'[c].pc = "sleep"

C12_FailedSendUnregisters == [][C12_Step]_vars

\* C13: a subscribe or unsubscribe frame handled for an id that is not
\* registered is rejected: it changes neither the sessions nor the metadata
\* nor any bucket (nor the set of topics that have a bucket).
C13_Step ==
    \A c \in DOMAIN client_id :
        client_id[c] \in DOMAIN active_connections
        \/ UNCHANGED registry
        \/ \A message_types \in TypeLists :
              ~RecvSubscribe(c, message_types) /\ ~RecvUnsubscribe(c, message_types)

C13_UnknownSessionRejected == [][C13_Step]_vars

-----------------------------------------------------------------------------
\* Properties of connect with ids that may repeat (under SpecClock)

\* C14: connect under an id that is already registered is refused: the
\* websocket, the metadata and the subscriptions registered under the id stay
\* as they are.
C14_Step ==
    \A id \in DOMAIN active_connections :
        \/ UNCHANGED registry
        \/ \A c \in Conns : ~ConnectAs(c, id)

C14_DuplicateIdRejected == [][C14_Step]_vars

-----------------------------------------------------------------------------
\* Properties of the end of a session (under SpecSession)

\* C16: when the client of session S disconnects (receive_json raises
\* WebSocketDisconnect), S's pump is stopped and S is no longer registered,
\* and the pump and the registration of every other session are as before.
C16_Step ==
    \A c \in DOMAIN client_id :
        RecvFails(c, "disconnect") =>
            /\ pump'[c].pc = "stopped"
            /\ client_id[c] \notin DOMAIN active_connections'
            /\ \A d \in Conns \ {c} : pump'[d] = pump[d]
            /\ OthersKept(client_id[c])

C16_DisconnectCancelsOwnPump == [][C16_Step]_vars

\* S's endpoint has ended with its pump cancelled while another session is
\* registered and its pump is running.
C16_Witness ==
    \E c \in DOMAIN client_id : \E d \in DOMAIN client_id :
        /\ c # d
        /\ handler[c].pc = "done"
        /\ pump[c].pc = "stopped" /\ pump[c].why = "cancelled"
        /\ client_id[c] \notin DOMAIN active_connections
        /\ client_id[d] \in DOMAIN active_connections
        /\ pump[d].pc \in {"fetch", "send", "sleep"}

-----------------------------------------------------------------------------
\* Properties of the life cycle (under SpecLife)

\* C17: whatever path ended a session's endpoint (client disconnect, receive
\* error, cancellation), the session is not registered any more and its pump
\* is not running.
C17_ReleasedOnEveryExit ==
    \A c \in DOMAIN client_id :
        handler[c].pc = "done" =>
            /\ client_id[c] \notin DOMAIN active_connections
            /\ pump[c].pc \in {"none", "stopped"}

\* C18: once the shutdown of lifespan has completed, no pump and no monitor
\* is left running, no session is registered and every connection's
\* transport is closed.
C18_ShutdownStopsEverything ==
    lifespan = "stopped" =>
        /\ \A c \in Conns : pump[c].pc \in {"none", "stopped"}
        /\ mon.pc \in {"idle", "stopped"}
        /\ DOMAIN active_connections = {}
        /\ \A c \in DOMAIN client_id : transport[c] = "closed"

\* C19: once the startup of lifespan has completed and until its shutdown, a
\* monitor is running.
C19_MonitorStartedAtStartup ==
    lifespan = "serving" => mon.pc \in {"fetch", "bcast", "sleep"}

-----------------------------------------------------------------------------
\* Properties of the monitor's error handling (under SpecMon)

LastTickFailed == Len(mlog) > 0 /\ ~mlog[Len(mlog)].ok

\* C20: a tick of the monitor whose query fails broadcasts nothing and does
\* not stop the monitor: the monitor sleeps one interval, after which it
\* queries again, and the tick after a failed one is evaluated as any other.
C20_MonitorSurvivesFailure ==
    /\ mon.pc \in {"fetch", "bcast", "sleep"}
    /\ \A k \in MonTicks : ~mlog[k].ok => mlog[k].fired = 0
    /\ LastTickFailed =>
          /\ bc.pc = "idle"
          /\ \/ mon.pc = "fetch"
             \/ mon.pc = "sleep" /\ (Len(mlog) < MaxMonTicks => ENABLED MonitorWake)
    /\ \A k \in MonTicks :
          (k > 1 /\ ~mlog[k - 1].ok /\ mlog[k].ok)
              => mlog[k].fired = FirstMilestone(mlog[k].revenue, 1)

\* After a failed tick the next tick has found a milestone and is broadcasting it.
C20_Witness ==
    /\ Len(mlog) = 2
    /\ ~mlog[1].ok
    /\ mlog[2].ok /\ mlog[2].fired = 25000
    /\ mon.pc = "bcast" /\ bc.pc = "send"

-----------------------------------------------------------------------------
\* Properties of an evicted session's endpoint (under Spec)

\* C21: once a session has been evicted after a failed send, its receive loop
\* has ended: no subscribe, unsubscribe or ping frame of a session that is
\* not registered is processed.
C21_Step ==
    \A c \in DOMAIN client_id :
        \/ client_id[c] \in DOMAIN active_connections
        \/ UNCHANGED <<registry, handler>>
        \/ /\ ~RecvPing(c)
           /\ \A message_types \in TypeLists :
                 ~RecvSubscribe(c, message_types) /\ ~RecvUnsubscribe(c, message_types)

C21_EvictedSessionTornDown == [][C21_Step]_vars

-----------------------------------------------------------------------------
\* Properties of the frames (under SpecSession)

\* C22: a frame whose action is not one of subscribe, unsubscribe and ping, or
\* that has no action, is ignored: the sessions, the metadata and the buckets
\* stay as they are, every pump goes on as before, and the endpoint goes back
\* to its receive without sending anything.
C22_Step ==
    \/ UNCHANGED <<registry, pump, handler, transport, bc>>
    \/ \A c \in DOMAIN client_id :
       \A action \in FrameActions \ {"subscribe", "unsubscribe", "ping"} :
       \A message_types \in TypeLists :
           ~RecvFrame(c, action, message_types)

C22_UnknownActionIgnored == [][C22_Step]_vars

\* A registered, subscribed session whose pump runs is ready to take such a
\* frame (taking it leads back to this very state).
C22_Witness ==
    \E c \in DOMAIN client_id :
        /\ client_id[c] \in DOMAIN active_connections
        /\ \E t \in DOMAIN subscriptions : client_id[c] \in subscriptions[t]
        /\ pump[c].pc \in {"fetch", "send", "sleep"}
        /\ \E action \in FrameActions \ {"subscribe", "unsubscribe", "ping"} :
              ENABLED RecvFrame(c, action, {"alert"})

\* The ping frame of a registered session: one send of a pong is started, on
\* the session's own websocket, and nothing else changes.
PingStartsOnePong(c) ==
    (client_id[c] \in DOMAIN active_connections /\ RecvPing(c)) =>
        /\ handler'[c] = [pc |-> "pong", ws |-> {c}]
        /\ \A d \in Conns \ {c} : handler'[d] = handler[d]
        /\ UNCHANGED <<registry, pump, bc>>

\* The send of the pong has ended: the endpoint goes back to its receive
\* without another send, and no other endpoint is concerned.
PongEnds(c) ==
    PongDone(c) =>
        /\ handler'[c] = [pc |-> "receive", ws |-> {}]
        /\ \A d \in Conns \ {c} : handler'[d] = handler[d]

\* C23 as stated: a ping frame from a registered session S has one pong sent
\* to S and to no other session, and the handling of the ping changes neither
\* the sessions nor any bucket.
C23_Step ==
    \A c \in DOMAIN client_id :
        /\ PingStartsOnePong(c)
        /\ PongEnds(c)
        /\ PongDone(c) => UNCHANGED registry

C23_PingChangesNothing == [][C23_Step]_vars

\* C23 as it holds: a ping frame from a registered session S has one pong sent
\* to S and to no other session; when the send of the pong succeeds the
\* handling changes neither the sessions nor any bucket, and when it fails it
\* unregisters S and changes nothing of any other session.
C23_AmendedStep ==
    \A c \in DOMAIN client_id :
        /\ PingStartsOnePong(c)
        /\ PongEnds(c)
        /\ PongDone(c) =>
              IF SendOk(handler[c].ws)
              THEN UNCHANGED registry
              ELSE /\ client_id[c] \notin DOMAIN active_connections'
                   /\ OthersKept(client_id[c])

C23_PingSendsOnePong == [][C23_AmendedStep]_vars

\* The pong of a registered session is being sent on its own websocket while
\* another session is registered.
C23_Witness ==
    \E c \in DOMAIN client_id : \E d \in DOMAIN client_id :
        /\ c # d
        /\ handler[c] = [pc |-> "pong", ws |-> {c}]
        /\ transport[c] = "open"
        /\ client_id[c] \in DOMAIN active_connections
        /\ client_id[d] \in DOMAIN active_connections
        /\ handler[d].pc = "receive"

\* Connection c's pump has been created and its session is not registered
\* (ids are never registered twice, so it has been unregistered).
PumpOfUnregistered(c) ==
    /\ c \in DOMAIN client_id
    /\ pump[c].pc # "none"
    /\ client_id[c] \notin DOMAIN active_connections

\* While its session is not registered the pump starts no send, and a send
\* that was under way when the session was unregistered does not succeed.
C24_Step ==
    \A c \in Conns :
        (PumpOfUnregistered(c) /\ pump'[c] # pump[c]) =>
            /\ pump'[c].pc # "send"
            /\ pump[c].pc = "send" => ~SendOk(pump[c].ws)

\* C24: once session S has been unregistered, by the client's disconnect or by
\* the eviction after a failed send, no metrics message is sent to S's
\* transport any more and S's pump eventually reaches Stopped, also when the
\* pump was suspended in its fetch or in its sleep at that time.
C24_UnregisteredPumpStops ==
    /\ [][C24_Step]_vars
    /\ \A c \in Conns : PumpOfUnregistered(c) ~> (pump[c].pc = "stopped")

\* One pump has stopped at its loop condition while its endpoint still
\* receives, and the pump of another unregistered session is suspended in its
\* fetch or in its sleep.
C24_Witness ==
    \E c \in Conns : \E d \in Conns \ {c} :
        /\ PumpOfUnregistered(c)
        /\ pump[c].pc = "stopped" /\ pump[c].why = "unregistered"
        /\ handler[c].pc = "receive"
        /\ PumpOfUnregistered(d)
        /\ pump[d].pc \in {"fetch", "sleep"}

\* The milestones crossed from tick k - 1 to tick k: the revenue was below
\* them and is now at or above them.
Crossed(k) ==
    {milestones[j] : j \in {j \in DOMAIN milestones :
        mlog[k - 1].revenue < milestones[j] /\ milestones[j] <= mlog[k].revenue}}

Leaves(i) == i \in DOMAIN active_connections /\ i \notin DOMAIN active_connections'

\* Id i is a member of fewer buckets after this step.
LosesBucket(i) ==
    \E t \in DOMAIN subscriptions : i \in subscriptions[t] \ Bucket(subscriptions', t)

\* From one suspension point to the next: an id that leaves the sessions is
\* in no bucket and has no metadata afterwards, and an id that stays in the
\* sessions leaves a bucket or loses its metadata only by the unsubscribe
\* frame of its own endpoint (which keeps the metadata).
C26_Step ==
    \A i \in Ids :
        /\ Leaves(i) =>
              /\ i \notin DOMAIN connection_metadata'
              /\ \A t \in DOMAIN subscriptions' : i \notin subscriptions'[t]
        /\ i \in DOMAIN active_connections' =>
              /\ i \in DOMAIN connection_metadata'
              /\ LosesBucket(i) =>
                    \E c \in DOMAIN client_id :
                        /\ client_id[c] = i
                        /\ \E message_types \in TypeLists :
                               RecvUnsubscribe(c, message_types)

\* C26: the removal of a session is atomic for every other task. At no
\* suspension point of a broadcast or of a receive loop is a session that
\* disconnect removed from the sessions still in a bucket or in the metadata,
\* or removed from a bucket or from the metadata and still in the sessions.
C26_RemovalIsAtomic == [][C26_Step]_vars

\* A broadcast on a topic has run its clean-up: the subscribers whose send
\* failed are in neither the sessions, nor the metadata, nor a bucket, and a
\* subscriber is left in the bucket.
C26_Witness ==
    /\ bc.pc = "done" /\ bc.live
    /\ \E s \in bc.disconnected_clients :
          /\ s \notin DOMAIN active_connections
          /\ s \notin DOMAIN connection_metadata
          /\ \A t \in DOMAIN subscriptions : s \notin subscriptions[t]
    /\ Bucket(subscriptions, bc.message_type) # {}

\* The step is one of broadcast's.
BroadcastStep ==
    \/ BroadcastSendDone
    \/ BroadcastReturn
    \/ \E message_type \in Topics \cup {NoTopic} : Broadcast(message_type)

\* The registry after the step is the registry before it without the ids.
RegistryMinus(ids) ==
    /\ active_connections' =
          [i \in DOMAIN active_connections \ ids |-> active_connections[i]]
    /\ connection_metadata' =
          [i \in DOMAIN connection_metadata \ ids |-> connection_metadata[i]]
    /\ subscriptions' = [t \in DOMAIN subscriptions |-> subscriptions[t] \ ids]

\* A broadcast changes the registry in its last step only; when no other task
\* changed the registry during it (the registry before the last step is then
\* the registry at its start), what it leaves is that registry without the
\* ids whose send failed, and these are ids it sent to and did not deliver to.
C27_Step ==
    /\ (bc'.pc = "done" /\ bc.pc # "done" /\ ~bc'.interfered) =>
          /\ RegistryMinus(bc'.disconnected_clients)
          /\ bc'.disconnected_clients \cap bc'.delivered = {}
          /\ \A i \in bc'.disconnected_clients : bc'.sent[i] = 1
    /\ \/ UNCHANGED registry
       \/ bc'.pc = "done" /\ bc.pc # "done"
       \/ ~BroadcastStep

\* C27: a broadcast evicts only the sessions whose send failed during it.
\* After it returns, and absent other concurrent operations, the sessions and
\* every bucket are what they were before it minus exactly those sessions; no
\* session whose send succeeded or that was not a recipient is removed or has
\* its subscriptions changed.
C27_EvictsOnlyFailed == [][C27_Step]_vars

\* A broadcast on a topic has evicted a subscriber whose send failed, and a
\* session it did not send to is registered and subscribed to the other topic.
C27_Witness ==
    /\ bc.pc = "done" /\ ~bc.interfered /\ bc.live
    /\ bc.disconnected_clients # {}
    /\ bc.disconnected_clients \cap DOMAIN active_connections = {}
    /\ \E j \in DOMAIN active_connections :
          /\ bc.sent[j] = 0
          /\ \E t \in DOMAIN subscriptions \ {bc.message_type} : j \in subscriptions[t]

\* The session of connection d is registered: its id is in the sessions and
\* maps to its websocket.
SessionRegistered(d) ==
    /\ d \in DOMAIN client_id
    /\ client_id[d] \in DOMAIN active_connections
    /\ active_connections[client_id[d]] = d

SessionRegisteredAfter(d) ==
    /\ client_id'[d] \in DOMAIN active_connections'
    /\ active_connections'[client_id'[d]] = d

\* A step of connection c's pump: a send it starts is on c's websocket, the
\* pump of every other connection is as it was, and every other session that
\* was registered is registered.
C28_Step ==
    \A c \in DOMAIN client_id :
        PumpStepNoLog(c) =>
            /\ pump'[c].ws \subseteq {c}
            /\ \A d \in Conns \ {c} :
                  /\ pump'[d] = pump[d]
                  /\ SessionRegistered(d) => SessionRegisteredAfter(d)

\* C28: pumps are isolated from each other. The pump of session S sends only
\* to S's transport, and a failure of the provider or of the transport in S's
\* pump never stops the pump of another session and never unregisters another
\* session.
C28_PumpsIsolated == [][C28_Step]_vars

\* C29: on a tick of the monitor where the count of the customers at risk
\* (no order for 90 days) exceeds the bound, the monitor broadcasts an alert
\* message on the alert topic.
C29_ChurnAlert ==
    \A k \in MonTicks :
        (mlog[k].ok /\ mlog[k].high_risk_count = "over_bound") => mlog[k].fired # 0

\* A broadcast without message type begins: the ids it will go through are
\* those of the sessions, and it is suspended in its first send (or it is
\* over, when there is no session).
StartsForAll ==
    /\ bc'.pending \cup bc'.cur = DOMAIN active_connections
    /\ bc'.pending \cap bc'.cur = {}
    /\ bc'.sent = [i \in Ids |-> IF i \in bc'.cur THEN 1 ELSE 0]
    /\ bc'.pc = IF DOMAIN active_connections = {} THEN "done" ELSE "send"

\* The broadcast goes from one send to the next (or to its end): the id it
\* sends to now was still to come, is registered and has had no send; the ids
\* it passed over on the way are not registered; the others are still to come.
TakesNextTurn ==
    /\ bc'.pc \in {"send", "done"}
    /\ bc'.cur \subseteq bc.pending \cap DOMAIN active_connections
    /\ bc'.pending \subseteq bc.pending \ bc'.cur
    /\ (bc.pending \ (bc'.pending \cup bc'.cur)) \cap DOMAIN active_connections = {}
    /\ \A i \in bc'.cur : bc.sent[i] = 0
    /\ bc'.sent = [i \in Ids |-> IF i \in bc'.cur THEN 1 ELSE bc.sent[i]]
    /\ bc'.pc = "done" <=> bc'.cur = {}
    /\ bc'.pc = "done" => bc'.pending = {}

\* While the broadcast is suspended, the steps of the other tasks change
\* neither the ids still to come nor the sends made.
C30_Step ==
    /\ (bc.pc = "idle" /\ bc'.pc # "idle" /\ bc'.message_type = NoTopic)
          => StartsForAll
    /\ (bc.pc = "send" /\ bc.message_type = NoTopic) =>
          IF BroadcastSendDone
          THEN TakesNextTurn
          ELSE /\ bc'.pending = bc.pending
               /\ bc'.cur = bc.cur
               /\ bc'.sent = bc.sent
               /\ bc'.pc = "send"

\* C30: a broadcast without topic attempts one send to every session that is
\* registered when it starts and still registered when its turn comes,
\* whatever the sessions are subscribed to (and to no other session).
C30_AllSessionsOnce == [][C30_Step]_vars

\* A broadcast without topic is over: it sent once to a session subscribed to
\* "alert" and once to a session without any subscription.
C30_Witness ==
    /\ bc.pc = "done" /\ bc.message_type = NoTopic
    /\ \E i \in Ids : \E j \in Ids \ {i} :
          /\ bc.sent[i] = 1 /\ bc.sent[j] = 1
          /\ i \in Bucket(subscriptions, "alert")
          /\ \A t \in DOMAIN subscriptions : j \notin subscriptions[t]

====
